---------------------------- MODULE Spec2Model ----------------------------
(***************************************************************************)
(* Model of src/main.rs: the 9x9 Gameboard (cells, char, set, the three    *)
(* peer queries leftright / updown / inbox, populate) and the              *)
(* GameboardController (selected_cell, cursor_pos, event).                 *)
(*                                                                         *)
(* Conventions.  Option<T> is a sequence of length <= 1: None is <<>> and  *)
(* Some(v) is <<v>>.  A cell index [usize; 2] is the pair <<col, row>>;    *)
(* cells is indexed cells[row][col] with row, col in 0..8, as in the       *)
(* source.  Pointer coordinates are f64 in the source; the model draws     *)
(* them from integer pixel values, for which (x / size * 9.0) as usize     *)
(* equals (x * 9) \div size (the exact quotient is an integer only for     *)
(* x = 0 and x = size, and is otherwise at least 1/size away from one).    *)
(***************************************************************************)
EXTENDS Integers, Sequences, FiniteSets, TLC

VARIABLES cells, seed, selected_cell, cursor_pos, fault, last, nev, result

vars == <<cells, seed, selected_cell, cursor_pos, fault, last, nev, result>>

(***************************************************************************)
(* Program constants.                                                      *)
(***************************************************************************)
SIZE == 9

size == 400

position == <<10, 10>>

(***************************************************************************)
(* Bounds of the model.                                                    *)
(***************************************************************************)
MaxEvents == 5

Idx == 0 .. (SIZE - 1)

None == <<>>

Some(v) == <<v>>

(***************************************************************************)
(* Gameboard                                                               *)
(***************************************************************************)
NewCells == [j \in Idx |-> [i \in Idx |-> 0]]

InBounds(ind) == ind[1] < SIZE /\ ind[2] < SIZE

char(c, ind) ==
    CASE c[ind[2]][ind[1]] = 1 -> Some("1")
      [] c[ind[2]][ind[1]] = 2 -> Some("2")
      [] c[ind[2]][ind[1]] = 3 -> Some("3")
      [] c[ind[2]][ind[1]] = 4 -> Some("4")
      [] c[ind[2]][ind[1]] = 5 -> Some("5")
      [] c[ind[2]][ind[1]] = 6 -> Some("6")
      [] c[ind[2]][ind[1]] = 7 -> Some("7")
      [] c[ind[2]][ind[1]] = 8 -> Some("8")
      [] c[ind[2]][ind[1]] = 9 -> Some("9")
      [] OTHER -> None

set(c, ind, val) == [c EXCEPT ![ind[2]][ind[1]] = val]

\* leftright with the second loop started at x instead of x + 1.
leftrightKeepsCell(c, x, y) ==
    {c[y][i] : i \in 0 .. (x - 1)} \cup {c[y][i] : i \in x .. 8}

leftright(c, x, y) ==
    {c[y][i] : i \in 0 .. (x - 1)} \cup {c[y][i] : i \in (x + 1) .. 8}

updown(c, x, y) ==
    {c[j][x] : j \in 0 .. (y - 1)} \cup {c[j][x] : j \in (y + 1) .. 8}

\* inbox with the box column and box row exchanged.
inboxSwapped(c, x, y) ==
    LET grid_x == y \div 3
        grid_y == x \div 3
    IN  {c[j][i] : j \in (grid_y * 3) .. ((grid_y + 1) * 3 - 1),
                   i \in (grid_x * 3) .. ((grid_x + 1) * 3 - 1)}

inbox(c, x, y) ==
    LET grid_x == x \div 3
        grid_y == y \div 3
    IN  {c[j][i] : j \in (grid_y * 3) .. ((grid_y + 1) * 3 - 1),
                   i \in (grid_x * 3) .. ((grid_x + 1) * 3 - 1)}

fullset == {1, 2, 3, 4, 5, 6, 7, 8, 9}

\* The index table with the fourth row left unshifted.
indexesShiftSlip ==
    << <<0, 1, 2, 3, 4, 5, 6, 7, 8>>,
       <<3, 4, 5, 6, 7, 8, 0, 1, 2>>,
       <<6, 7, 8, 0, 1, 2, 3, 4, 5>>,
       <<0, 1, 2, 3, 4, 5, 6, 7, 8>>,
       <<1, 2, 3, 4, 5, 6, 7, 8, 0>>,
       <<4, 5, 6, 7, 8, 0, 1, 2, 3>>,
       <<5, 6, 7, 8, 0, 1, 2, 3, 4>>,
       <<8, 0, 1, 2, 3, 4, 5, 6, 7>>,
       <<2, 3, 4, 5, 6, 7, 8, 0, 1>> >>

indexes ==
    << <<0, 1, 2, 3, 4, 5, 6, 7, 8>>,
       <<3, 4, 5, 6, 7, 8, 0, 1, 2>>,
       <<6, 7, 8, 0, 1, 2, 3, 4, 5>>,
       <<7, 8, 0, 1, 2, 3, 4, 5, 6>>,
       <<1, 2, 3, 4, 5, 6, 7, 8, 0>>,
       <<4, 5, 6, 7, 8, 0, 1, 2, 3>>,
       <<5, 6, 7, 8, 0, 1, 2, 3, 4>>,
       <<8, 0, 1, 2, 3, 4, 5, 6, 7>>,
       <<2, 3, 4, 5, 6, 7, 8, 0, 1>> >>

\* Vec::remove(index), index counted from 0: the vector without that element.
VecRemove(v, index) == SubSeq(v, 1, index) \o SubSeq(v, index + 2, Len(v))

\* The seeding loop reading possibilities[index] without removing it.
RECURSIVE DrawSeedNoRemove(_, _)
DrawSeedNoRemove(possibilities, draws) ==
    IF draws = <<>>
    THEN <<>>
    ELSE <<possibilities[Head(draws) + 1]>>
         \o DrawSeedNoRemove(possibilities, Tail(draws))

\* The seeding loop of populate: draws[k] is the k-th value of gen_range,
\* and each round pushes possibilities.remove(index) to the seed.
RECURSIVE DrawSeed(_, _)
DrawSeed(possibilities, draws) ==
    IF draws = <<>>
    THEN <<>>
    ELSE LET index == Head(draws)
             rest == VecRemove(possibilities, index)
         IN  <<possibilities[index + 1]>> \o DrawSeed(rest, Tail(draws))

\* The fill loop of populate: cells[j][i] = seed[indexes[j][i]].
Fill(s) ==
    [j \in Idx |-> LET row == indexes[j + 1] IN [i \in Idx |-> s[row[i + 1] + 1]]]

\* Orders in which the HashSet of fullset may be iterated (unspecified).
HashOrders ==
    { <<1, 2, 3, 4, 5, 6, 7, 8, 9>>, <<4, 9, 2, 7, 1, 8, 5, 3, 6>> }

\* A sample of the sequences of values gen_range(0, possibilities.len()) can
\* return, for the specifications that interleave populate with events.
SampleDraws ==
    { <<0, 0, 0, 0, 0, 0, 0, 0, 0>>, <<8, 7, 6, 5, 4, 3, 2, 1, 0>>,
      <<4, 0, 5, 2, 2, 3, 0, 1, 0>> }

(***************************************************************************)
(* GameboardController                                                     *)
(***************************************************************************)
Inside(x, y, sz) == x >= 0 /\ x <= sz /\ y >= 0 /\ y <= sz

\* The cell coordinate rounded to the nearest cell instead of truncated.
CellCoordRounded(x, sz) == (x * 9 + sz \div 2) \div sz

CellCoord(x, sz) == (x * 9) \div sz

\* The key table shifted by one digit.
KeyDigitShifted(key) ==
    CASE key = "D1" -> Some(2)
      [] key = "D2" -> Some(3)
      [] key = "D3" -> Some(4)
      [] key = "D4" -> Some(5)
      [] key = "D5" -> Some(6)
      [] key = "D6" -> Some(7)
      [] key = "D7" -> Some(8)
      [] key = "D8" -> Some(9)
      [] key = "D9" -> Some(10)
      [] OTHER -> None

KeyDigit(key) ==
    CASE key = "D1" -> Some(1)
      [] key = "D2" -> Some(2)
      [] key = "D3" -> Some(3)
      [] key = "D4" -> Some(4)
      [] key = "D5" -> Some(5)
      [] key = "D6" -> Some(6)
      [] key = "D7" -> Some(7)
      [] key = "D8" -> Some(8)
      [] key = "D9" -> Some(9)
      [] OTHER -> None

\* An event as the handler sees it: the results of e.mouse_cursor_args()
\* and e.press_args().
MouseCursor(p) == [mouse_cursor_args |-> Some(p), press_args |-> None]

PressMouse(b) == [mouse_cursor_args |-> None, press_args |-> Some(<<"Mouse", b>>)]

PressKey(k) == [mouse_cursor_args |-> None, press_args |-> Some(<<"Keyboard", k>>)]

NoArgs == [mouse_cursor_args |-> None, press_args |-> None]

IsLeftPress(e) == e.press_args = Some(<<"Mouse", "Left">>)

IsKeyPress(e) == e.press_args # None /\ e.press_args[1][1] = "Keyboard"

\* Relative pointer position of a cursor position.
Rel(cp, pos) == <<cp[1] - pos[1], cp[2] - pos[2]>>

\* The primary-click branch clearing the selection on a click off the board.
ClickSelectOrClear(sel, cp, pos, sz) ==
    IF Inside(cp[1] - pos[1], cp[2] - pos[2], sz)
    THEN Some(<<(((cp[1] - pos[1]) * 9) \div sz), (((cp[2] - pos[2]) * 9) \div sz)>>)
    ELSE None

\* selected_cell after the primary-click branch of event.
ClickSelect(sel, cp, pos, sz) ==
    IF Inside(Rel(cp, pos)[1], Rel(cp, pos)[2], sz)
    THEN Some(<<CellCoord(Rel(cp, pos)[1], sz), CellCoord(Rel(cp, pos)[2], sz)>>)
    ELSE sel

\* GameboardController::event(pos, size, e), the whole handler.
event(pos, sz, e) ==
    LET cp  == IF e.mouse_cursor_args # None
               THEN e.mouse_cursor_args[1] ELSE cursor_pos
        sel == IF IsLeftPress(e)
               THEN ClickSelect(selected_cell, cp, pos, sz) ELSE selected_cell
        val == IF IsKeyPress(e) THEN KeyDigit(e.press_args[1][2]) ELSE None
    IN  /\ cursor_pos' = cp
        /\ selected_cell' = sel
        /\ IF sel # None /\ val # None
           THEN IF InBounds(sel[1])
                THEN cells' = set(cells, sel[1], val[1]) /\ fault' = fault
                ELSE cells' = cells /\ fault' = TRUE
           ELSE cells' = cells /\ fault' = fault
        /\ last' = [op |-> "event", e |-> e]
        /\ nev' = nev + 1
        /\ UNCHANGED <<seed, result>>

\* Inputs of the model.
Offsets == {-1, 0, 100, 200, size, size + 1}

Points == {<<position[1] + dx, position[2] + dy>> : dx \in Offsets, dy \in Offsets}

Buttons == {"Left", "Right"}

Keys == {"D1", "D2", "D3", "D4", "D5", "D6", "D7", "D8", "D9", "A"}

Running == fault = FALSE /\ nev < MaxEvents

MouseCursorEvent == Running /\ \E p \in Points : event(position, size, MouseCursor(p))

PressMouseEvent == Running /\ \E b \in Buttons : event(position, size, PressMouse(b))

PressKeyEvent == Running /\ \E k \in Keys : event(position, size, PressKey(k))

OtherEvent == Running /\ event(position, size, NoArgs)

\* populate dropping the selection along with the old board.
populateClearsSelection(possibilities, draws) ==
    /\ seed' = DrawSeed(possibilities, draws)
    /\ cells' = Fill(seed')
    /\ selected_cell' = None
    /\ last' = [op |-> "populate", e |-> NoArgs]
    /\ nev' = nev + 1
    /\ UNCHANGED <<cursor_pos, fault, result>>

\* Gameboard::populate, the whole routine, for one iteration order of the
\* HashSet and one sequence of values drawn from the random source.
populate(possibilities, draws) ==
    /\ seed' = DrawSeed(possibilities, draws)
    /\ cells' = Fill(seed')
    /\ last' = [op |-> "populate", e |-> NoArgs]
    /\ nev' = nev + 1
    /\ UNCHANGED <<selected_cell, cursor_pos, fault, result>>

Populate ==
    /\ Running
    /\ \E possibilities \in HashOrders, draws \in SampleDraws :
           populate(possibilities, draws)

\* Gameboard::new and GameboardController::new.
Init ==
    /\ cells = NewCells
    /\ seed = <<>>
    /\ selected_cell = None
    /\ cursor_pos = <<0, 0>>
    /\ fault = FALSE
    /\ last = [op |-> "new", e |-> NoArgs]
    /\ nev = 0
    /\ result = None

Next ==
    \/ MouseCursorEvent
    \/ PressMouseEvent
    \/ PressKeyEvent
    \/ OtherEvent
    \/ Populate

Spec == Init /\ [][Next]_vars

(***************************************************************************)
(* Boards the program can hold: a new or populated board after a few set   *)
(* calls (a click on a cell followed by a digit key).                      *)
(***************************************************************************)
MaxWrites == 2

SampleWrites ==
    { <<<<0, 0>>, 5>>, <<<<3, 3>>, 7>>, <<<<4, 3>>, 7>>, <<<<7, 1>>, 2>>,
      <<<<8, 8>>, 1>> }

RECURSIVE ApplyWrites(_, _)
ApplyWrites(c, ws) ==
    IF ws = <<>> THEN c
    ELSE ApplyWrites(set(c, ws[1][1], ws[1][2]), Tail(ws))

WriteSeqs == UNION {[1 .. n -> SampleWrites] : n \in 0 .. MaxWrites}

BaseBoards ==
    {NewCells} \cup {Fill(DrawSeed(p, d)) : p \in HashOrders, d \in SampleDraws}

SampleBoards == {ApplyWrites(b, ws) : b \in BaseBoards, ws \in WriteSeqs}

InitOn(board) ==
    /\ cells = board
    /\ seed = <<>>
    /\ selected_cell = None
    /\ cursor_pos = <<0, 0>>
    /\ fault = FALSE
    /\ last = [op |-> "new", e |-> NoArgs]
    /\ nev = 0
    /\ result = None

(***************************************************************************)
(* SpecGen: one call of populate, as in main, over every order in which    *)
(* the random source can draw the nine digits, on a board that holds       *)
(* anything from all zeros to digits.                                      *)
(***************************************************************************)
PriorBoards ==
    { NewCells,
      ApplyWrites(Fill(<<9, 8, 7, 6, 5, 4, 3, 2, 1>>), << <<<<3, 3>>, 7>> >>) }

GenInit == \E board \in PriorBoards : InitOn(board)

\* One iteration order suffices here: with every draw sequence, each order
\* yields every seed.
GenOrders == { <<4, 9, 2, 7, 1, 8, 5, 3, 6>> }

PopulateAny ==
    /\ nev = 0
    /\ \E possibilities \in GenOrders :
         \E a \in 0 .. 8, b \in 0 .. 7, c \in 0 .. 6, d \in 0 .. 5,
            e \in 0 .. 4, f \in 0 .. 3, g \in 0 .. 2, h \in 0 .. 1 :
            populate(possibilities, <<a, b, c, d, e, f, g, h, 0>>)

GenNext == PopulateAny

SpecGen == GenInit /\ [][GenNext]_vars

(***************************************************************************)
(* SpecQuery: one peer query, at any cell, on any of the sample boards; the *)
(* answer is recorded in result.                                           *)
(***************************************************************************)
Answer(op, x, y, val) ==
    /\ result = None
    /\ result' = Some([op |-> op, x |-> x, y |-> y, val |-> val])
    /\ UNCHANGED <<cells, seed, selected_cell, cursor_pos, fault, last, nev>>

LeftRight == \E x \in Idx, y \in Idx : Answer("leftright", x, y, leftright(cells, x, y))

UpDown == \E x \in Idx, y \in Idx : Answer("updown", x, y, updown(cells, x, y))

InBox == \E x \in Idx, y \in Idx : Answer("inbox", x, y, inbox(cells, x, y))

QueryInit == \E board \in SampleBoards : InitOn(board)

QueryNext ==
    \/ LeftRight
    \/ UpDown
    \/ InBox

SpecQuery == QueryInit /\ [][QueryNext]_vars

(***************************************************************************)
(* Properties of populate, under SpecGen.                                  *)
(***************************************************************************)
Digits == 1 .. 9

Populated == last.op = "populate"

IsPermutation(s) == Len(s) = 9 /\ {s[k] : k \in 1 .. 9} = Digits

\* The table of nine index rows, one per output row.
PermutationTable ==
    << <<0, 1, 2, 3, 4, 5, 6, 7, 8>>,
       <<3, 4, 5, 6, 7, 8, 0, 1, 2>>,
       <<6, 7, 8, 0, 1, 2, 3, 4, 5>>,
       <<7, 8, 0, 1, 2, 3, 4, 5, 6>>,
       <<1, 2, 3, 4, 5, 6, 7, 8, 0>>,
       <<4, 5, 6, 7, 8, 0, 1, 2, 3>>,
       <<5, 6, 7, 8, 0, 1, 2, 3, 4>>,
       <<8, 0, 1, 2, 3, 4, 5, 6, 7>>,
       <<2, 3, 4, 5, 6, 7, 8, 0, 1>> >>

\* C3: after populate, for every order in which the random source draws the
\* digits and whatever the grid held before, the seed is a permutation of
\* 1..9, cell (row j, col i) is seed[permutation[j][i]] for the fixed table
\* of nine index rows, and every row, as a set, is {1,...,9}.
C3_PopulateRows ==
    Populated =>
        /\ IsPermutation(seed)
        /\ \A j \in Idx : \A i \in Idx :
             cells[j][i] = seed[PermutationTable[j + 1][i + 1] + 1]
        /\ \A j \in Idx : {cells[j][i] : i \in Idx} = Digits

\* A populated board whose seed is neither ascending nor descending.
C3_Witness ==
    /\ Populated
    /\ seed = <<5, 3, 9, 1, 7, 2, 8, 6, 4>>
    /\ cells[3][0] = 6
    /\ cells[8][8] = 3

\* C10: after populate, for every seed, the grid is a complete valid Sudoku
\* solution: every row, every column and every 3x3 box holds each digit 1..9
\* exactly once (its nine cells hold, as a set, all nine digits).
C10_ValidSolution ==
    Populated =>
        /\ \A y \in Idx : {cells[y][i] : i \in Idx} = Digits
        /\ \A x \in Idx : {cells[j][x] : j \in Idx} = Digits
        /\ \A bx \in 0 .. 2 : \A by \in 0 .. 2 :
             {cells[3 * by + j][3 * bx + i] : i \in 0 .. 2, j \in 0 .. 2} = Digits

\* A populated board on which, at every cell, the row-peer and column-peer
\* queries return {1..9} minus the cell's digit and the box query {1..9}.
C10_Witness ==
    /\ Populated
    /\ seed = <<2, 4, 6, 8, 1, 3, 5, 7, 9>>
    /\ \A x \in Idx : \A y \in Idx :
         /\ leftright(cells, x, y) = Digits \ {cells[y][x]}
         /\ updown(cells, x, y) = Digits \ {cells[y][x]}
         /\ inbox(cells, x, y) = Digits

(***************************************************************************)
(* Properties of the controller, under Spec.                               *)
(***************************************************************************)
SelectionInGrid ==
    selected_cell = None
      \/ (selected_cell[1][1] \in 0 .. 8 /\ selected_cell[1][2] \in 0 .. 8)

\* C1: over every sequence of pointer-move, primary-click and digit-key
\* events the selection is none or a pair (col,row) with 0 <= col < 9 and
\* 0 <= row < 9, so that no digit key makes set index the grid out of range
\* (the fault state is never reached).
C1_SelectionInGridNoFault == SelectionInGrid /\ fault = FALSE

\* C2: in every state reachable from new() by populate calls and controller
\* events the grid is exactly 9x9 and every cell holds a value in 0..9, and
\* right after new() every cell is 0.
C2_GridShape ==
    /\ DOMAIN cells = 0 .. 8
    /\ \A j \in 0 .. 8 :
         /\ DOMAIN cells[j] = 0 .. 8
         /\ \A i \in 0 .. 8 : cells[j][i] \in 0 .. 9
    /\ last.op = "new" => \A j \in 0 .. 8 : \A i \in 0 .. 8 : cells[j][i] = 0

\* A populated board on which a digit key has then overwritten a cell.
C2_Witness ==
    /\ seed # <<>>
    /\ last.op = "event" /\ IsKeyPress(last.e)
    /\ cells # Fill(seed)
    /\ fault = FALSE

\* The event just handled, seen from the step that handled it.
Handled(e) == last' = [op |-> "event", e |-> e]

DigitOfKey ==
    [k \in Keys |->
       CASE k = "D1" -> 1 [] k = "D2" -> 2 [] k = "D3" -> 3 [] k = "D4" -> 4
         [] k = "D5" -> 5 [] k = "D6" -> 6 [] k = "D7" -> 7 [] k = "D8" -> 8
         [] k = "D9" -> 9 [] OTHER -> 0]

CharOfDigit == <<"1", "2", "3", "4", "5", "6", "7", "8", "9">>

\* C4: a digit key with no cell selected leaves every cell unchanged; with
\* cell (col,row) selected, a digit key d makes char(col,row) the character
\* of d, changes no other cell and leaves the selection unchanged; a key
\* that is not a digit 1..9 changes neither the board nor the selection.
C4_DigitKey ==
    [][\A k \in Keys :
         Handled(PressKey(k)) =>
           /\ selected_cell' = selected_cell
           /\ (selected_cell = None \/ DigitOfKey[k] = 0) => cells' = cells
           /\ (selected_cell # None /\ DigitOfKey[k] # 0) =>
                /\ fault' = FALSE
                /\ InBounds(selected_cell[1])
                /\ char(cells', selected_cell[1]) = Some(CharOfDigit[DigitOfKey[k]])
                /\ \A j \in 0 .. 8 : \A i \in 0 .. 8 :
                     <<i, j>> # selected_cell[1] => cells'[j][i] = cells[j][i]
      ]_vars

\* floor(rel / size * 9) for a relative coordinate within [0, size].
FloorCell(rel) == CHOOSE n \in 0 .. 9 : n * size <= 9 * rel /\ 9 * rel < (n + 1) * size

WithinBoard(cp) ==
    /\ 0 <= cp[1] - position[1] /\ cp[1] - position[1] <= size
    /\ 0 <= cp[2] - position[2] /\ cp[2] - position[2] <= size

\* C5: the recorded pointer position is that of the latest pointer-move
\* event ((0,0) before the first), and a primary click at a recorded position
\* whose two relative coordinates are within [0, size] sets the selection to
\* (floor(rel_x / size * 9), floor(rel_y / size * 9)), replacing any previous
\* selection and leaving the cells unchanged.
C5_ClickSelects ==
    /\ cursor_pos = <<0, 0>>
    /\ [][/\ last'.e.mouse_cursor_args # None =>
               cursor_pos' = last'.e.mouse_cursor_args[1]
          /\ last'.e.mouse_cursor_args = None => cursor_pos' = cursor_pos
          /\ (Handled(PressMouse("Left")) /\ WithinBoard(cursor_pos)) =>
               /\ selected_cell' =
                    Some(<<FloorCell(cursor_pos[1] - position[1]),
                           FloorCell(cursor_pos[2] - position[2])>>)
               /\ cells' = cells
       ]_vars

\* The click of the scenario (pointer at (110,210), origin (10,10), size
\* 400), after cell (0,0) had been selected and given a 5.
C5_Witness ==
    /\ last = [op |-> "event", e |-> PressMouse("Left")]
    /\ cursor_pos = <<110, 210>>
    /\ selected_cell = Some(<<2, 4>>)
    /\ cells[0][0] = 5
    /\ seed = <<>>

\* C6: a primary click while the recorded pointer position is outside the
\* board rectangle on either axis leaves selected_cell as it was (none
\* included) and leaves the board unchanged.
C6_OutsideClick ==
    [][(Handled(PressMouse("Left")) /\ ~WithinBoard(cursor_pos)) =>
         /\ selected_cell' = selected_cell
         /\ cells' = cells
      ]_vars

\* A click outside the board that kept the cell selected before it.
C6_Witness ==
    /\ last = [op |-> "event", e |-> PressMouse("Left")]
    /\ cursor_pos = <<9, 210>>
    /\ selected_cell = Some(<<2, 4>>)

\* C7: the controller starts with no selection; the selection changes only
\* on a primary click within the board; pointer moves, keys and board
\* mutations never change it; once a cell is selected the selection is never
\* none again.
C7_SelectionLifecycle ==
    /\ selected_cell = None
    /\ [][/\ selected_cell' # selected_cell =>
               (Handled(PressMouse("Left")) /\ WithinBoard(cursor_pos))
          /\ selected_cell # None => selected_cell' # None
       ]_vars

\* A selection that outlived a pointer move, a digit key and a populate.
C7_Witness ==
    /\ selected_cell = Some(<<2, 4>>)
    /\ cursor_pos # <<110, 210>>
    /\ last.op = "populate"
    /\ nev = 5

(***************************************************************************)
(* Properties of the peer queries, under SpecQuery.                        *)
(***************************************************************************)
Asked(op) == result' # result /\ result'[1].op = op

\* C8: the row-peer query for (row, excluding col) returns exactly
\* { cells[row][i] : i # col } (so it holds 0 iff a peer cell is empty), the
\* column-peer query for (col, excluding row) returns exactly
\* { cells[j][col] : j # row }, and neither query modifies the board.
C8_RowColumnPeers ==
    [][LET r == result'[1] IN
       /\ Asked("leftright") =>
            /\ r.val = {cells[r.y][i] : i \in (0 .. 8) \ {r.x}}
            /\ 0 \in r.val <=> \E i \in (0 .. 8) \ {r.x} : cells[r.y][i] = 0
            /\ cells' = cells
       /\ Asked("updown") =>
            /\ r.val = {cells[j][r.x] : j \in (0 .. 8) \ {r.y}}
            /\ 0 \in r.val <=> \E j \in (0 .. 8) \ {r.y} : cells[j][r.x] = 0
            /\ cells' = cells
      ]_vars

\* A row query that leaves out the only 5 of an otherwise empty row.
C8_Witness ==
    /\ result = Some([op |-> "leftright", x |-> 0, y |-> 0, val |-> {0}])
    /\ cells[0][0] = 5

\* C9: box_peers(col,row) returns exactly the values of the 9 cells of the
\* 3x3 box at (col/3, row/3), the queried cell included, so two cells of one
\* box give the same result.
C9_BoxPeers ==
    [][LET r == result'[1]
           bx == CHOOSE b \in 0 .. 2 : 3 * b <= r.x /\ r.x < 3 * b + 3
           by == CHOOSE b \in 0 .. 2 : 3 * b <= r.y /\ r.y < 3 * b + 3
       IN  Asked("inbox") =>
            /\ r.val = {cells[j][i] : i \in {3 * bx, 3 * bx + 1, 3 * bx + 2},
                                      j \in {3 * by, 3 * by + 1, 3 * by + 2}}
            /\ cells[r.y][r.x] \in r.val
            /\ \A i \in {3 * bx, 3 * bx + 1, 3 * bx + 2} :
                 \A j \in {3 * by, 3 * by + 1, 3 * by + 2} :
                   inbox(cells, i, j) = r.val
            /\ cells' = cells
      ]_vars

\* A query of the top right box from its corner cell, on a board whose only
\* digit in that box is a 2 at another cell.
C9_Witness ==
    /\ result = Some([op |-> "inbox", x |-> 6, y |-> 2, val |-> {0, 2}])
    /\ cells[1][7] = 2

=============================================================================
